---------------------------- MODULE Spec2Model ----------------------------
(***************************************************************************)
(* Model of src/clean_data.py: a linear table-cleaning pipeline            *)
(* (load, two deduplications, column pruning, header normalization,        *)
(* required-field filtering, default fill, date parsing, text and phone    *)
(* normalization, final report, save) under one top-level try/except.      *)
(*                                                                         *)
(* A text is a sequence of characters; a character is a one-character      *)
(* string, except NonAsciiDigit, which stands for one non-ASCII decimal    *)
(* digit character (U+0663, ARABIC-INDIC DIGIT THREE).                     *)
(* A cell is a record [k, v]: k is the kind of the value (null, str, int,  *)
(* float, date) and v its text payload.  pandas < 3 semantics are          *)
(* modelled: astype(str) turns a missing value into the text 'nan'.        *)
(***************************************************************************)
EXTENDS Integers, Sequences, FiniteSets, TLC

VARIABLES pc, df, workbook, outfile, prevOut, hist, report, run

vars == <<pc, df, workbook, outfile, prevOut, hist, report, run>>

(***************************************************************************)
(* Bounds                                                                  *)
(***************************************************************************)
MaxRows == 3
MaxNameLen == 4
MaxTextLen == 3

(***************************************************************************)
(* Characters and texts                                                    *)
(***************************************************************************)
UpperCase == <<"A","B","C","D","E","F","G","H","I","J","K","L","M",
               "N","O","P","Q","R","S","T","U","V","W","X","Y","Z">>
LowerCase == <<"a","b","c","d","e","f","g","h","i","j","k","l","m",
               "n","o","p","q","r","s","t","u","v","w","x","y","z">>

NonAsciiDigit == "U+0663"

AsciiDigits == {"0","1","2","3","4","5","6","7","8","9"}

\* What the regex class \d matches in a Python 3 str pattern: every Unicode
\* decimal digit, not only 0-9.
RegexDigits == AsciiDigits \cup {NonAsciiDigit}

\* What str.strip() with no argument removes.
Whitespace == {" ", "\t", "\n"}

\* str.lower() on one character
LowerChar(c) ==
    IF \E i \in 1..Len(UpperCase) : UpperCase[i] = c
    THEN LowerCase[CHOOSE i \in 1..Len(UpperCase) : UpperCase[i] = c]
    ELSE c

\* str.lower()
StrLower(s) == [i \in 1..Len(s) |-> LowerChar(s[i])]

\* str.strip()
StrStrip(s) ==
    LET keep == {i \in 1..Len(s) : s[i] \notin Whitespace}
    IN  IF keep = {} THEN << >>
        ELSE LET lo == CHOOSE i \in keep : \A j \in keep : i <= j
                 hi == CHOOSE i \in keep : \A j \in keep : j <= i
             IN  SubSeq(s, lo, hi)

\* str.replace(old, new) for one-character old and new
StrReplace(s, old, new) == [i \in 1..Len(s) |-> IF s[i] = old THEN new ELSE s[i]]

IsRegexDigit(c) == c \in RegexDigits

\* str.replace(r'[^\d]', '', regex=True)
StripNonDigits(s) == SelectSeq(s, IsRegexDigit)

(***************************************************************************)
(* Cells                                                                   *)
(***************************************************************************)
Null == [k |-> "null", v |-> << >>]
StrCell(s) == [k |-> "str", v |-> s]
IntCell(s) == [k |-> "int", v |-> s]
FloatCell(s) == [k |-> "float", v |-> s]
DateCell(s) == [k |-> "date", v |-> s]

\* isna()
IsNa(c) == c.k = "null"

\* astype(str) on one value of a column of the given dtype
AsStr(c, dtype) ==
    CASE c.k = "null"  -> IF dtype = "datetime64" THEN <<"N","a","T">>
                          ELSE <<"n","a","n">>
      [] c.k = "float" -> c.v \o <<".","0">>
      [] OTHER         -> c.v

(***************************************************************************)
(* Column names the script refers to                                       *)
(***************************************************************************)
CustomerIdRaw == <<"C","u","s","t","o","m","e","r"," ","I","d">>
IndexRaw == <<"I","n","d","e","x">>
customer_id == <<"c","u","s","t","o","m","e","r","_","i","d">>
email == <<"e","m","a","i","l">>
subscription_date == <<"s","u","b","s","c","r","i","p","t","i","o","n","_","d","a","t","e">>
first_name == <<"f","i","r","s","t","_","n","a","m","e">>
last_name == <<"l","a","s","t","_","n","a","m","e">>
company == <<"c","o","m","p","a","n","y">>
city == <<"c","i","t","y">>
country == <<"c","o","u","n","t","r","y">>
phone_1 == <<"p","h","o","n","e","_","1">>
phone_2 == <<"p","h","o","n","e","_","2">>
website == <<"w","e","b","s","i","t","e">>

text_columns == <<first_name, last_name, company, city, country,
                  phone_1, phone_2, email, website>>
phone_cols == <<phone_1, phone_2>>

NA_FILL == <<"N","/","A">>

(***************************************************************************)
(* Tables: column names, one dtype per column, rows aligned with columns   *)
(***************************************************************************)
NoTable == [columns |-> << >>, dtypes |-> << >>, rows |-> << >>]

HasCol(t, name) == \E i \in 1..Len(t.columns) : t.columns[i] = name

ColIdx(t, name) ==
    CHOOSE i \in 1..Len(t.columns) :
        /\ t.columns[i] = name
        /\ \A j \in 1..Len(t.columns) : t.columns[j] = name => i <= j

ColumnOf(rows, i) == [r \in 1..Len(rows) |-> rows[r][i]]

CountTrue(mask) == Cardinality({i \in 1..Len(mask) : mask[i]})

RECURSIVE KeepFrom(_, _, _)
KeepFrom(rows, mask, i) ==
    IF i > Len(rows) THEN << >>
    ELSE (IF mask[i] THEN <<rows[i]>> ELSE << >>) \o KeepFrom(rows, mask, i + 1)

\* boolean indexing: the rows whose mask entry is TRUE, in order
KeepRows(rows, mask) == KeepFrom(rows, mask, 1)

\* DataFrame.duplicated(): a row is marked when an earlier row has the same
\* key; missing values compare equal to each other.
Duplicated(keys) ==
    [i \in 1..Len(keys) |-> \E j \in 1..(i - 1) : keys[j] = keys[i]]

\* DataFrame.drop_duplicates(keep='last'), as a mask of the rows kept
KeepLastMask(keys) ==
    [i \in 1..Len(keys) |-> ~ \E j \in (i + 1)..Len(keys) : keys[j] = keys[i]]

\* DataFrame.drop_duplicates(keep='first'), as a mask of the rows kept
KeepFirstMask(keys) ==
    [i \in 1..Len(keys) |-> ~ Duplicated(keys)[i]]

DropDuplicates(t, keys) == [t EXCEPT !.rows = KeepRows(t.rows, KeepFirstMask(keys))]

\* df[col] = vals, a column of the given dtype
SetColumn(t, i, vals, dtype) ==
    [t EXCEPT !.rows = [r \in 1..Len(t.rows) |-> [t.rows[r] EXCEPT ![i] = vals[r]]],
              !.dtypes = [@ EXCEPT ![i] = dtype]]

DropAt(s, i) == SubSeq(s, 1, i - 1) \o SubSeq(s, i + 1, Len(s))

(***************************************************************************)
(* Step 1: pd.read_excel                                                   *)
(***************************************************************************)
\* Texts the reader turns into a missing value (pandas' default na_values)
NA_VALUES == { << >>, <<"n","a","n">>, <<"N","a","N">>, <<"N","/","A">>,
               <<"n","/","a">>, <<"N","A">>, <<"N","U","L","L">>,
               <<"n","u","l","l">>, <<"N","o","n","e">>, <<"#","N","/","A">>,
               <<"<","N","A",">">> }

ParseCell(c) == IF c.k = "str" /\ c.v \in NA_VALUES THEN Null ELSE c

InferDtype(cells) ==
    LET present == {i \in 1..Len(cells) : ~ IsNa(cells[i])}
    IN  CASE Len(cells) = 0 -> "object"
          [] present = {} -> "float64"
          [] \A i \in present : cells[i].k = "date" -> "datetime64"
          [] \A i \in present : cells[i].k = "int" ->
                 IF present = 1..Len(cells) THEN "int64" ELSE "float64"
          [] OTHER -> "object"

\* an integer column holding a missing value is read as float64
Upcast(c, dtype) ==
    IF dtype = "float64" /\ c.k = "int" THEN FloatCell(c.v) ELSE c

ReadExcel(wb) ==
    LET parsed == [r \in 1..Len(wb.rows) |->
                      [i \in 1..Len(wb.columns) |-> ParseCell(wb.rows[r][i])]]
        dts == [i \in 1..Len(wb.columns) |-> InferDtype(ColumnOf(parsed, i))]
    IN  [columns |-> wb.columns,
         dtypes  |-> dts,
         rows    |-> [r \in 1..Len(parsed) |->
                        [i \in 1..Len(wb.columns) |-> Upcast(parsed[r][i], dts[i])]]]

(***************************************************************************)
(* The steps after the load, as table transformations                      *)
(***************************************************************************)
\* lines 21-26 with the result of drop_duplicates not assigned back
DedupFullNotAssigned(t) == t

\* lines 21-26
DedupFull(t) ==
    IF CountTrue(Duplicated(t.rows)) > 0 THEN DropDuplicates(t, t.rows) ELSE t

\* lines 29-34 (the caller checks that the column exists: KeyError otherwise)
DedupKey(t) ==
    LET keys == ColumnOf(t.rows, ColIdx(t, CustomerIdRaw))
    IN  IF CountTrue(Duplicated(keys)) > 0 THEN DropDuplicates(t, keys) ELSE t

\* lines 41-43
DropIndex(t) ==
    IF HasCol(t, IndexRaw)
    THEN LET i == ColIdx(t, IndexRaw)
         IN  [columns |-> DropAt(t.columns, i),
              dtypes  |-> DropAt(t.dtypes, i),
              rows    |-> [r \in 1..Len(t.rows) |-> DropAt(t.rows[r], i)]]
    ELSE t

\* line 47 with the replacement made before the strip
ReplaceThenStrip(name) == StrStrip(StrReplace(StrLower(name), " ", "_"))

\* line 47: .str.lower().str.strip().str.replace(' ', '_')
NormalizeName(name) == StrReplace(StrStrip(StrLower(name)), " ", "_")

RenameColumns(t) ==
    [t EXCEPT !.columns = [i \in 1..Len(t.columns) |-> NormalizeName(t.columns[i])]]

\* line 55 with the result of dropna not assigned back
DropNoRow(t) == t

\* line 55: dropna(subset=['customer_id'])
DropNa(t) ==
    LET ids == ColumnOf(t.rows, ColIdx(t, customer_id))
    IN  [t EXCEPT !.rows = KeepRows(t.rows, [i \in 1..Len(ids) |-> ~ IsNa(ids[i])])]

\* line 66 overwriting the column instead of filling it
FillEverything(c) == StrCell(NA_FILL)

\* line 66: fillna('N/A') on one value
FillNa(c) == IF IsNa(c) THEN StrCell(NA_FILL) ELSE c

\* lines 62-66
MissingEmails(t) ==
    IF HasCol(t, email)
    THEN CountTrue([r \in 1..Len(t.rows) |-> IsNa(t.rows[r][ColIdx(t, email)])])
    ELSE 0

FillEmail(t) ==
    IF HasCol(t, email) /\ MissingEmails(t) > 0
    THEN LET i == ColIdx(t, email)
         IN  SetColumn(t, i, [r \in 1..Len(t.rows) |-> FillNa(t.rows[r][i])], "object")
    ELSE t

\* lines 73-78
DateTexts == { <<"2","0","2","0","-","0","1","-","0","5">> }
EpochText == <<"1","9","7","0","-","0","1","-","0","1">>

\* pd.to_datetime(..., errors='coerce') on one value
ToDatetime(c) ==
    CASE c.k = "null" -> Null
      [] c.k = "date" -> c
      [] c.k = "str"  -> IF c.v \in DateTexts THEN DateCell(c.v) ELSE Null
      [] OTHER        -> DateCell(EpochText)

\* lines 73-78 dropping the rows whose date did not parse
DropUnparsed(t) ==
    IF HasCol(t, subscription_date)
    THEN LET i == ColIdx(t, subscription_date)
             u == SetColumn(t, i, [r \in 1..Len(t.rows) |-> ToDatetime(t.rows[r][i])],
                            "datetime64")
         IN  [u EXCEPT !.rows = KeepRows(u.rows,
                           [r \in 1..Len(u.rows) |-> ~ IsNa(u.rows[r][i])])]
    ELSE t

\* lines 73-78
ConvertDates(t) ==
    IF HasCol(t, subscription_date)
    THEN LET i == ColIdx(t, subscription_date)
         IN  IF t.dtypes[i] = "datetime64" THEN t
             ELSE SetColumn(t, i, [r \in 1..Len(t.rows) |-> ToDatetime(t.rows[r][i])],
                            "datetime64")
    ELSE t

\* line 92 without the trailing .str.strip()
TextOfNoStrip(t, i) ==
    SetColumn(t, i, [r \in 1..Len(t.rows) |->
                       StrCell(StrLower(AsStr(t.rows[r][i], t.dtypes[i])))], "object")

\* line 92: astype(str).str.lower().str.strip() on one column
TextOf(t, i) ==
    SetColumn(t, i, [r \in 1..Len(t.rows) |->
                       StrCell(StrStrip(StrLower(AsStr(t.rows[r][i], t.dtypes[i]))))],
              "object")

RECURSIVE TextLoop(_, _)
TextLoop(t, n) ==
    IF n = 0 THEN t
    ELSE LET u == TextLoop(t, n - 1)
             col == text_columns[n]
         IN  IF HasCol(u, col) THEN TextOf(u, ColIdx(u, col)) ELSE u

\* lines 89-92
StandardizeText(t) == TextLoop(t, Len(text_columns))

\* line 100: astype(str).str.replace(r'[^\d]', '', regex=True) on one column
PhoneOf(t, i) ==
    SetColumn(t, i, [r \in 1..Len(t.rows) |->
                       StrCell(StripNonDigits(AsStr(t.rows[r][i], t.dtypes[i])))],
              "object")

RECURSIVE PhoneLoop(_, _)
PhoneLoop(t, n) ==
    IF n = 0 THEN t
    ELSE LET u == PhoneLoop(t, n - 1)
             col == phone_cols[n]
         IN  IF HasCol(u, col) THEN PhoneOf(u, ColIdx(u, col)) ELSE u

\* lines 97-100 with the loop stopping after 'phone_1'
CleanFirstPhoneOnly(t) == PhoneLoop(t, 1)

\* lines 97-100
CleanPhones(t) == PhoneLoop(t, Len(phone_cols))

\* line 111: to_csv(index=False): a header line and one line of fields per row;
\* a missing value is written as an empty field.
Field(c, dtype) == IF IsNa(c) THEN << >> ELSE AsStr(c, dtype)

ToCsv(t) ==
    [exists |-> TRUE,
     header |-> t.columns,
     lines  |-> [r \in 1..Len(t.rows) |->
                   [i \in 1..Len(t.columns) |-> Field(t.rows[r][i], t.dtypes[i])]]]

(***************************************************************************)
(* Input workbooks                                                         *)
(***************************************************************************)
T_Ann == <<"A","n","n"," ">>
T_Phone == <<"+","1"," ","(","5","5","5",")"," ","0","1","0","-","0","0","0","0">>
T_Date == <<"2","0","2","0","-","0","1","-","0","5">>

RowPool ==
    { [idx |-> IntCell(<<"1">>), id |-> IntCell(<<"1">>), first |-> StrCell(T_Ann),
       phone |-> StrCell(T_Phone), mail |-> StrCell(<<"A","@","b",".","c">>),
       date |-> DateCell(T_Date)],
      [idx |-> IntCell(<<"2">>), id |-> IntCell(<<"1">>), first |-> StrCell(<<"B","O","B">>),
       phone |-> IntCell(<<"1","5">>), mail |-> Null,
       date |-> StrCell(<<"b","a","d">>)],
      [idx |-> IntCell(<<"3">>), id |-> Null, first |-> Null,
       phone |-> Null, mail |-> StrCell(<<" ">>), date |-> Null],
      [idx |-> IntCell(<<"4">>), id |-> StrCell(<<" ">>), first |-> StrCell(<<" ">>),
       phone |-> StrCell(<<NonAsciiDigit, "5", "x">>), mail |-> StrCell(<<"N","/","A">>),
       date |-> StrCell(T_Date)],
      [idx |-> IntCell(<<"5">>), id |-> IntCell(<<"7">>), first |-> StrCell(<<"a","n","n">>),
       phone |-> IntCell(<<"7">>), mail |-> StrCell(<<"n","@","x">>),
       date |-> DateCell(T_Date)] }

Headers ==
    { << [name |-> IndexRaw, field |-> "idx"],
         [name |-> CustomerIdRaw, field |-> "id"],
         [name |-> <<"F","i","r","s","t"," ","N","a","m","e">>, field |-> "first"],
         [name |-> <<"P","h","o","n","e"," ","1">>, field |-> "phone"],
         [name |-> <<"E","m","a","i","l">>, field |-> "mail"],
         [name |-> <<"S","u","b","s","c","r","i","p","t","i","o","n"," ","D","a","t","e">>,
          field |-> "date"] >>,
       << [name |-> CustomerIdRaw, field |-> "id"],
          [name |-> <<" ","F","i","r","s","t"," ","N","a","m","e","\t">>, field |-> "first"],
          [name |-> <<"P","H","O","N","E"," ","2">>, field |-> "phone"],
          [name |-> <<"E"," ","M","a","i","l">>, field |-> "mail"] >>,
       << [name |-> <<"c","u","s","t","o","m","e","r"," ","i","d">>, field |-> "id"],
          [name |-> <<"F","i","r","s","t"," ","N","a","m","e">>, field |-> "first"] >> }

SeqsUpTo(S, n) == UNION { [1..k -> S] : k \in 0..n }

\* a header variant and up to MaxRows rows of the pool
PoolWorkbooks ==
    { [columns |-> [i \in 1..Len(h) |-> h[i].name],
       rows    |-> [r \in 1..Len(rs) |-> [i \in 1..Len(h) |-> rs[r][h[i].field]]]] :
      h \in Headers, rs \in SeqsUpTo(RowPool, MaxRows) }

\* one-row workbooks whose second header is any short name over NameChars
NameChars == {"A", "b", " ", "\t"}

NameWorkbooks ==
    { [columns |-> <<CustomerIdRaw, n>>,
       rows    |-> << <<IntCell(<<"1">>), StrCell(T_Ann)>> >>] :
      n \in SeqsUpTo(NameChars, MaxNameLen) }

\* one-row workbooks whose second cell is any short text over TextChars
TextChars == {"5", " ", "N", "A", NonAsciiDigit}

CellHeaders ==
    { <<"P","h","o","n","e"," ","1">>, <<"F","i","r","s","t"," ","N","a","m","e">>,
      <<"E","m","a","i","l">>, <<"N","o","t","e","s">> }

CellWorkbooks ==
    { [columns |-> <<CustomerIdRaw, h>>,
       rows    |-> << <<IntCell(<<"1">>), StrCell(t)>> >>] :
      h \in CellHeaders, t \in SeqsUpTo(TextChars, MaxTextLen) }

Workbooks == PoolWorkbooks \cup NameWorkbooks \cup CellWorkbooks

\* the output file before the run: absent, or an earlier run's content
Absent == [exists |-> FALSE, header |-> << >>, lines |-> << >>]
EarlierOutput == [exists |-> TRUE, header |-> <<customer_id>>, lines |-> << <<"o","l","d">> >>]

(***************************************************************************)
(* The script as a state machine                                           *)
(***************************************************************************)
Labels == {"load", "dedup_full", "dedup_key", "drop_index", "rename", "dropna",
           "fill", "dates", "text", "phones", "review"}

NoReport == [full_dups |-> 0, id_dups |-> 0, rows_dropped |-> 0, emails_filled |-> 0,
             original |-> 0, cleaned |-> 0, saves |-> 0, steps |-> << >>,
             error |-> "none"]

Init ==
    /\ pc = "load"
    /\ df = NoTable
    /\ workbook \in Workbooks
    /\ outfile \in {Absent, EarlierOutput}
    /\ prevOut = outfile
    /\ hist = [l \in Labels |-> NoTable]
    /\ report = NoReport
    /\ run = 1

\* a step that completed: the table becomes t, control moves to `next`
Advance(label, next, t, rep) ==
    /\ df' = t
    /\ hist' = [hist EXCEPT ![label] = t]
    /\ report' = [rep EXCEPT !.steps = Append(@, label)]
    /\ pc' = next
    /\ UNCHANGED <<workbook, outfile, prevOut, run>>

\* an exception reaches one of the handlers of lines 118-128
Raise(err) ==
    /\ pc' = "failed"
    /\ report' = [report EXCEPT !.error = err]
    /\ UNCHANGED <<df, workbook, outfile, prevOut, hist, run>>

\* line 11
Load ==
    /\ pc = "load"
    /\ Advance("load", "dedup_full", ReadExcel(workbook), report)

LoadFails ==
    /\ pc = "load"
    /\ \E err \in {"FileNotFoundError", "ModuleNotFoundError", "Exception"} : Raise(err)

\* lines 21-26
StepDedupFull ==
    /\ pc = "dedup_full"
    /\ Advance("dedup_full", "dedup_key", DedupFull(df),
               [report EXCEPT !.full_dups = CountTrue(Duplicated(df.rows))])

\* lines 29-34
StepDedupKey ==
    /\ pc = "dedup_key"
    /\ HasCol(df, CustomerIdRaw)
    /\ Advance("dedup_key", "drop_index", DedupKey(df),
               [report EXCEPT !.id_dups =
                   CountTrue(Duplicated(ColumnOf(df.rows, ColIdx(df, CustomerIdRaw))))])

\* line 29 raises KeyError when the column is missing
StepDedupKeyFails ==
    /\ pc = "dedup_key"
    /\ ~ HasCol(df, CustomerIdRaw)
    /\ Raise("Exception")

\* lines 41-43
StepDropIndex ==
    /\ pc = "drop_index"
    /\ Advance("drop_index", "rename", DropIndex(df), report)

\* line 47
StepRename ==
    /\ pc = "rename"
    /\ Advance("rename", "dropna", RenameColumns(df), report)

\* lines 54-60
StepDropNa ==
    /\ pc = "dropna"
    /\ IF HasCol(df, customer_id)
       THEN Advance("dropna", "fill", DropNa(df),
                    [report EXCEPT !.rows_dropped = Len(df.rows) - Len(DropNa(df).rows)])
       ELSE Raise("Exception")

\* lines 62-66
StepFillEmail ==
    /\ pc = "fill"
    /\ Advance("fill", "dates", FillEmail(df),
               [report EXCEPT !.emails_filled = MissingEmails(df)])

\* lines 73-78
StepDates ==
    /\ pc = "dates"
    /\ Advance("dates", "text", ConvertDates(df), report)

\* lines 89-92
StepText ==
    /\ pc = "text"
    /\ Advance("text", "phones", StandardizeText(df), report)

\* lines 97-100
StepPhones ==
    /\ pc = "phones"
    /\ Advance("phones", "review", CleanPhones(df), report)

\* lines 104-107: the input file is read a second time
StepReview ==
    /\ pc = "review"
    /\ Advance("review", "save", df,
               [report EXCEPT !.original = Len(ReadExcel(workbook).rows),
                              !.cleaned = Len(df.rows)])

\* the save made before the second read of the input file
StepReviewFailsAfterSave ==
    /\ pc = "review"
    /\ pc' = "failed"
    /\ outfile' = ToCsv(df)
    /\ report' = [report EXCEPT !.error = "Exception"]
    /\ UNCHANGED <<df, workbook, prevOut, hist, run>>

\* line 106 raises: the input file is gone or unreadable by now
StepReviewFails ==
    /\ pc = "review"
    /\ \E err \in {"FileNotFoundError", "Exception"} : Raise(err)

\* lines 111-115
StepSave ==
    /\ pc = "save"
    /\ outfile' = ToCsv(df)
    /\ report' = [report EXCEPT !.saves = @ + 1]
    /\ pc' = "done"
    /\ UNCHANGED <<df, workbook, prevOut, hist, run>>

Next ==
    \/ Load
    \/ LoadFails
    \/ StepDedupFull
    \/ StepDedupKey
    \/ StepDedupKeyFails
    \/ StepDropIndex
    \/ StepRename
    \/ StepDropNa
    \/ StepFillEmail
    \/ StepDates
    \/ StepText
    \/ StepPhones
    \/ StepReview
    \/ StepReviewFails
    \/ StepSave

Spec == Init /\ [][Next]_vars

(***************************************************************************)
(* Re-running the script on its own output                                 *)
(***************************************************************************)
\* The saved file turned back into an input workbook: the identifier column
\* gets the header the script looks up, an empty field is an empty cell and
\* every other field is a text cell.
FromCsv(f) ==
    [columns |-> [i \in 1..Len(f.header) |->
                     IF f.header[i] = customer_id THEN CustomerIdRaw ELSE f.header[i]],
     rows    |-> [r \in 1..Len(f.lines) |->
                     [i \in 1..Len(f.header) |->
                         IF f.lines[r][i] = << >> THEN Null ELSE StrCell(f.lines[r][i])]]]

Reingest ==
    /\ pc = "done"
    /\ run = 1
    /\ workbook' = FromCsv(outfile)
    /\ prevOut' = outfile
    /\ run' = 2
    /\ pc' = "load"
    /\ df' = NoTable
    /\ hist' = [l \in Labels |-> NoTable]
    /\ report' = NoReport
    /\ UNCHANGED outfile

NextRerun == Next \/ Reingest

SpecRerun == Init /\ [][NextRerun]_vars

(***************************************************************************)
(* Properties                                                              *)
(***************************************************************************)
After(label) == \E i \in 1..Len(report.steps) : report.steps[i] = label

\* the n-th smallest element of a set of indices
Nth(idx, n) == CHOOSE j \in idx : Cardinality({k \in idx : k <= j}) = n

\* `kept` is exactly the rows of `rows` at the indices idx, in the same order
IsSelection(kept, rows, idx) ==
    /\ Len(kept) = Cardinality(idx)
    /\ \A n \in 1..Len(kept) : kept[n] = rows[Nth(idx, n)]

FirstOccurrences(keys) ==
    {j \in 1..Len(keys) : \A i \in 1..(j - 1) : keys[i] # keys[j]}

Distinct(keys) == \A i, j \in 1..Len(keys) : keys[i] = keys[j] => i = j

Values(keys) == {keys[i] : i \in 1..Len(keys)}

\* the identifier column of a table that still has the loaded header
RawKeys(t) == ColumnOf(t.rows, ColIdx(t, CustomerIdRaw))

\* the identifier column of a table with normalized header
Ids(t) == ColumnOf(t.rows, ColIdx(t, customer_id))

\* C1: after the key-duplicate removal the table holds exactly one row per
\* distinct 'Customer Id' value present before the step (a missing value
\* counts as one value), each kept row is the first row with its value, and
\* the kept rows are in their original order.
C1_KeyDedupKeepsFirstPerKey ==
    After("dedup_key") =>
        LET before == hist["dedup_full"]
            after  == hist["dedup_key"]
        IN  /\ Distinct(RawKeys(after))
            /\ Values(RawKeys(after)) = Values(RawKeys(before))
            /\ IsSelection(after.rows, before.rows, FirstOccurrences(RawKeys(before)))
            /\ after.columns = before.columns

\* Two rows that share an identifier but differ elsewhere went through the step.
C1_Witness ==
    /\ After("dedup_key")
    /\ report.id_dups > 0
    /\ report.full_dups = 0
    /\ Len(hist["dedup_key"].rows) >= 2

\* C2: after the exact-duplicate removal no two rows are equal in all
\* columns, the row count is the number of distinct rows of the loaded table,
\* and the rows kept are the first occurrences, in their original order.
C2_FullDedupKeepsFirstOfEachRow ==
    After("dedup_full") =>
        LET before == hist["load"]
            after  == hist["dedup_full"]
        IN  /\ Distinct(after.rows)
            /\ Len(after.rows) = Cardinality(Values(before.rows))
            /\ IsSelection(after.rows, before.rows, FirstOccurrences(before.rows))
            /\ after.columns = before.columns

\* A table with a repeated row and another row went through the step.
C2_Witness ==
    /\ After("dedup_full")
    /\ report.full_dups > 0
    /\ Len(hist["dedup_full"].rows) >= 2

\* a value that is missing, or a text that is empty or only whitespace
IsBlank(c) == IsNa(c) \/ (c.k = "str" /\ StrStrip(c.v) = << >>)

IdFieldsOf(f) ==
    [r \in 1..Len(f.lines) |->
        f.lines[r][CHOOSE i \in 1..Len(f.header) : f.header[i] = customer_id]]

\* C3 as stated: from the required-field filtering on, no row has a missing,
\* empty or whitespace-only customer_id.
C3_NoBlankIdentifier ==
    After("dropna") => \A r \in 1..Len(df.rows) : ~ IsBlank(Ids(df)[r])

\* C3 as amended: from the required-field filtering on, no row has a missing
\* customer_id and no row has the empty text as customer_id, in the table and
\* in the saved file; the step removes exactly the rows whose customer_id is
\* missing, so a whitespace-only identifier stays.
C3_NoMissingIdentifier ==
    After("dropna") =>
        /\ \A r \in 1..Len(df.rows) :
              ~ IsNa(Ids(df)[r]) /\ Ids(df)[r] # StrCell(<< >>)
        /\ IsSelection(hist["dropna"].rows, hist["rename"].rows,
                       {j \in 1..Len(hist["rename"].rows) : ~ IsNa(Ids(hist["rename"])[j])})
        /\ (pc = "done" /\ run = 1) =>
              /\ Len(outfile.lines) = Len(df.rows)
              /\ \A r \in 1..Len(outfile.lines) : IdFieldsOf(outfile)[r] # << >>

\* A run that dropped a row with a missing identifier, kept another and saved.
C3_Witness ==
    /\ pc = "done"
    /\ report.rows_dropped > 0
    /\ Len(df.rows) > 0

IsAsciiDigit(c) == c \in AsciiDigits

PhoneColumns(t) ==
    {i \in 1..Len(t.columns) : \E n \in 1..Len(phone_cols) : phone_cols[n] = t.columns[i]}

\* C4 as stated: after the phone normalization every phone_1/phone_2 value is
\* a text of ASCII digits only, the text form of the value before Step 9 with
\* every character that is not an ASCII digit removed.
C4_PhonesAsciiDigitsOnly ==
    After("phones") =>
        LET before == hist["dates"]
            after  == hist["phones"]
        IN  \A i \in PhoneColumns(after) : \A r \in 1..Len(after.rows) :
               /\ after.rows[r][i].k = "str"
               /\ \A n \in 1..Len(after.rows[r][i].v) : IsAsciiDigit(after.rows[r][i].v[n])
               /\ after.rows[r][i].v =
                     SelectSeq(AsStr(before.rows[r][i], before.dtypes[i]), IsAsciiDigit)

\* C4 as amended: after the phone normalization every phone_1/phone_2 value is
\* a text made only of decimal digits as the regex class \d understands them
\* (ASCII or not), the text form of the value before Step 9 (a missing value
\* as 'nan', a number as str() prints it) with every other character removed
\* and the digits in their original order.
C4_PhonesRegexDigitsOnly ==
    After("phones") =>
        LET before == hist["dates"]
            after  == hist["phones"]
        IN  /\ Len(after.rows) = Len(before.rows)
            /\ \A i \in PhoneColumns(after) : \A r \in 1..Len(after.rows) :
                  /\ after.rows[r][i].k = "str"
                  /\ \A n \in 1..Len(after.rows[r][i].v) :
                        after.rows[r][i].v[n] \in RegexDigits
                  /\ after.rows[r][i].v =
                        SelectSeq(AsStr(before.rows[r][i], before.dtypes[i]), IsRegexDigit)

\* '+1 (555) 010-0000' became '15550100000' in a 'phone_2' column, next to a
\* value that was missing.
C4_Witness ==
    /\ After("phones")
    /\ HasCol(df, phone_2)
    /\ \E r \in 1..Len(df.rows) :
          /\ hist["dates"].rows[r][ColIdx(df, phone_2)] = StrCell(T_Phone)
          /\ df.rows[r][ColIdx(df, phone_2)] =
                StrCell(<<"1","5","5","5","0","1","0","0","0","0","0">>)

\* C7: after the header normalization every column name is lowercase, has no
\* leading or trailing whitespace and no space character, and is the original
\* name trimmed, lowercased, with each remaining space replaced by an
\* underscore; the number and order of the columns and the rows do not change.
C7_HeadersNormalized ==
    After("rename") =>
        LET before == hist["drop_index"]
            after  == hist["rename"]
        IN  /\ Len(after.columns) = Len(before.columns)
            /\ after.rows = before.rows
            /\ after.dtypes = before.dtypes
            /\ \A i \in 1..Len(after.columns) :
                  LET a == after.columns[i]
                      b == StrStrip(before.columns[i])
                  IN  /\ StrLower(a) = a
                      /\ StrStrip(a) = a
                      /\ \A n \in 1..Len(a) : a[n] # " "
                      /\ Len(a) = Len(b)
                      /\ \A n \in 1..Len(a) :
                            a[n] = IF b[n] = " " THEN "_" ELSE LowerChar(b[n])

\* A header with a leading space, an inner space, a trailing tab and capitals
\* was normalized to first_name.
C7_Witness ==
    /\ After("rename")
    /\ \E i \in 1..Len(df.columns) :
          /\ hist["drop_index"].columns[i] =
                <<" ","F","i","r","s","t"," ","N","a","m","e","\t">>
          /\ hist["rename"].columns[i] = first_name

\* C8: with an email column, every row whose email is missing (or the empty
\* text) on entry holds 'N/A' after the default fill and every other value of
\* the table is unchanged; without the column, or without a missing email,
\* the table is unchanged.  No row is added or removed.
C8_EmailFilled ==
    After("fill") =>
        LET before == hist["dropna"]
            after  == hist["fill"]
        IN  /\ Len(after.rows) = Len(before.rows)
            /\ after.columns = before.columns
            /\ \A r \in 1..Len(after.rows) : \A i \in 1..Len(after.columns) :
                  IF after.columns[i] = email
                     /\ (IsNa(before.rows[r][i]) \/ before.rows[r][i] = StrCell(<< >>))
                  THEN after.rows[r][i] = StrCell(NA_FILL)
                  ELSE after.rows[r][i] = before.rows[r][i]
            /\ (~ HasCol(before, email)
                \/ \A r \in 1..Len(before.rows) : ~ IsNa(before.rows[r][ColIdx(before, email)]))
               => after = before

\* A table with one missing and one present email went through the fill.
C8_Witness ==
    /\ After("fill")
    /\ report.emails_filled > 0
    /\ report.emails_filled < Len(hist["fill"].rows)

\* C5: a second run, on the first run's saved output, removes no row in the
\* two deduplications or in the required-field filtering, fills no email and
\* saves a file equal to the first run's.
C5_SecondRunChangesNothing ==
    (run = 2 /\ pc = "done") =>
        /\ report.full_dups = 0
        /\ report.id_dups = 0
        /\ report.rows_dropped = 0
        /\ report.emails_filled = 0
        /\ outfile = prevOut

AllSteps == <<"load", "dedup_full", "dedup_key", "drop_index", "rename", "dropna",
              "fill", "dates", "text", "phones", "review">>

TextColumns(t) ==
    {i \in 1..Len(t.columns) : \E n \in 1..Len(text_columns) : text_columns[n] = t.columns[i]}

FieldOf(f, name) == CHOOSE i \in 1..Len(f.header) : f.header[i] = name

\* the input of the worked example: three rows, two of them identical with
\* identifier 1 and name 'Ann ', the third with an empty identifier
IsAnnExample(wb) ==
    /\ HasCol(wb, CustomerIdRaw)
    /\ Len(wb.rows) = 3
    /\ \E i, j, k \in 1..3 :
          /\ i < j /\ k # i /\ k # j
          /\ wb.rows[i] = wb.rows[j]
          /\ wb.rows[i][ColIdx(wb, CustomerIdRaw)] = IntCell(<<"1">>)
          /\ \E c \in 1..Len(wb.columns) :
                NormalizeName(wb.columns[c]) = first_name /\ wb.rows[i][c] = StrCell(T_Ann)
          /\ wb.rows[k][ColIdx(wb, CustomerIdRaw)] = Null

\* C9: after the text normalization every value of a present text column is
\* a text, the text form of the prior value trimmed and lowercased; every
\* other column is unchanged.  The worked example (two identical rows with
\* id 1 and name 'Ann ', one row with an empty identifier) is saved as exactly
\* one row whose name is 'ann'.
C9_TextNormalized ==
    /\ After("text") =>
          LET before == hist["dates"]
              after  == hist["text"]
          IN  /\ Len(after.rows) = Len(before.rows)
              /\ after.columns = before.columns
              /\ \A r \in 1..Len(after.rows) : \A i \in 1..Len(after.columns) :
                    IF i \in TextColumns(after)
                    THEN /\ after.rows[r][i].k = "str"
                         /\ after.rows[r][i].v =
                               StrLower(StrStrip(AsStr(before.rows[r][i], before.dtypes[i])))
                    ELSE after.rows[r][i] = before.rows[r][i]
    /\ (pc = "done" /\ IsAnnExample(workbook)) =>
          /\ Len(outfile.lines) = 1
          /\ outfile.lines[1][FieldOf(outfile, first_name)] = <<"a","n","n">>

\* The worked example ran to the end.
C9_Witness == pc = "done" /\ IsAnnExample(workbook)

\* C10: the default fill, the date parsing and the text and phone
\* normalization add, remove and reorder no row and keep every row as long as
\* the header; in the date parsing an entry that does not parse becomes
\* missing while its row stays, and a column that is already date-typed is
\* left as it is.  The saved file has as many rows as the table had after
\* the required-field filtering.
C10_ValueStepsKeepRows ==
    /\ \A l \in {"fill", "dates", "text", "phones"} :
          After(l) =>
             /\ Len(hist[l].rows) = Len(hist["dropna"].rows)
             /\ Ids(hist[l]) = Ids(hist["dropna"])
             /\ hist[l].columns = hist["dropna"].columns
             /\ \A r \in 1..Len(hist[l].rows) : Len(hist[l].rows[r]) = Len(hist[l].columns)
    /\ (After("dates") /\ HasCol(hist["dates"], subscription_date)) =>
          LET before == hist["fill"]
              after  == hist["dates"]
              i      == ColIdx(after, subscription_date)
          IN  /\ before.dtypes[i] = "datetime64" => after = before
              /\ \A r \in 1..Len(after.rows) :
                    /\ after.rows[r][i].k \in {"date", "null"}
                    /\ (before.rows[r][i].k = "str" /\ before.rows[r][i].v \notin DateTexts)
                          => IsNa(after.rows[r][i])
                    /\ \A c \in 1..Len(after.columns) :
                          c # i => after.rows[r][c] = before.rows[r][c]
    /\ pc = "done" => Len(outfile.lines) = Len(hist["dropna"].rows)

\* A date that does not parse became missing next to one that parsed, and
\* both rows were saved.
C10_Witness ==
    /\ pc = "done"
    /\ HasCol(df, subscription_date)
    /\ \E r, q \in 1..Len(df.rows) :
          LET i == ColIdx(df, subscription_date)
          IN  /\ hist["fill"].rows[r][i] = StrCell(<<"b","a","d">>)
              /\ IsNa(df.rows[r][i])
              /\ df.rows[q][i].k = "date"

=============================================================================
